---- MODULE Spec2Model ----
(***************************************************************************)
(* QuietRoute: the weighted cost function (src/utils/costFunction.js) and  *)
(* the route scorer.  The engine is a set of synchronous JavaScript        *)
(* functions; the state of the model is the invocation in progress: which  *)
(* function was entered (fn), its arguments (args), the wall-clock time    *)
(* the call read through `new Date()` (now) and the value returned (ret).  *)
(* osrmServer is the module variable of src/services/routingService.js,    *)
(* and prev is a history variable: the call that completed before the one  *)
(* in progress, kept by the specification that compares two calls.         *)
(*                                                                         *)
(* Numbers are exact rationals [n, d] in lowest terms, so 1.0 + (2.8 -     *)
(* 1.0) * 0.5 is 19/10 and products and sums are computed without          *)
(* rounding.  Geographic points lie on one meridian and a latitude is      *)
(* given as metres of arc from a reference point, so the great-circle      *)
(* distance of two points is the absolute difference of their latitudes.   *)
(***************************************************************************)
EXTENDS Integers, Sequences, FiniteSets, TLC

VARIABLES fn, args, now, ret, osrmServer, prev, calls, db, local, clock, deleting

\* the report stores: the reports table of the server, the reports kept in
\* localStorage, the time in hours, and the downvote requests of the server
\* that have updated the row and not yet answered
storeVars == <<db, local, clock, deleting>>

vars == <<fn, args, now, ret, osrmServer, prev, calls, storeVars>>

(***************************************************************************)
(* Bounds of the model.                                                    *)
(***************************************************************************)
\* preferences are the values k / PrefSteps, k in 0..PrefSteps
PrefSteps == 2

\* a call gets at most MaxReports active reports
MaxReports == 2

\* the oracle answers with at most MaxRoutes candidate routes
MaxRoutes == 3

(***************************************************************************)
(* Exact rational arithmetic.                                              *)
(***************************************************************************)
Abs(x) == IF x < 0 THEN -x ELSE x

RECURSIVE GCD(_, _)
GCD(a, b) == IF b = 0 THEN a ELSE GCD(b, a % b)

\* the rational n/d (d > 0) in lowest terms
Rat(n, d) == LET g == GCD(Abs(n), d) IN [n |-> n \div g, d |-> d \div g]

Num(k) == [n |-> k, d |-> 1]

Zero == Num(0)

One == Num(1)

RAdd(a, b) == Rat(a.n * b.d + b.n * a.d, a.d * b.d)

RSub(a, b) == Rat(a.n * b.d - b.n * a.d, a.d * b.d)

RMul(a, b) ==
    LET g1 == GCD(Abs(a.n), b.d)
        g2 == GCD(Abs(b.n), a.d)
    IN  Rat((a.n \div g1) * (b.n \div g2), (a.d \div g2) * (b.d \div g1))

\* a / b for b > 0
RDiv(a, b) == RMul(a, [n |-> b.d, d |-> b.n])

RLess(a, b) == a.n * b.d < b.n * a.d

RLeq(a, b) == a.n * b.d <= b.n * a.d

MathMax(a, b) == IF RLess(a, b) THEN b ELSE a

MathMin(a, b) == IF RLess(b, a) THEN b ELSE a

(***************************************************************************)
(* JavaScript objects are functions from field names to values; a missing  *)
(* field is a name outside the DOMAIN.  `o.f || dflt` yields dflt when the *)
(* field is missing or falsy ("" for a string, 0 for a number).            *)
(***************************************************************************)
EmptyObject == [f \in {} |-> 0]

StrOr(o, f, dflt) == IF f \in DOMAIN o /\ o[f] # "" THEN o[f] ELSE dflt

NumOr(o, f, dflt) == IF f \in DOMAIN o /\ o[f] # Zero THEN o[f] ELSE dflt

Truthy(o, f) == f \in DOMAIN o /\ o[f] = TRUE

\* the objects with at most the field f, its value drawn from vals
Optional(f, vals) == {EmptyObject} \cup {f :> v : v \in vals}

(***************************************************************************)
(* src/config.js                                                           *)
(***************************************************************************)
NOISE_WEIGHTS ==
    [motorway      |-> Rat(30, 10),
     trunk         |-> Rat(28, 10),
     primary       |-> Rat(25, 10),
     secondary     |-> Rat(20, 10),
     tertiary      |-> Rat(15, 10),
     residential   |-> Rat(10, 10),
     living_street |-> Rat(8, 10),
     pedestrian    |-> Rat(6, 10),
     path          |-> Rat(5, 10),
     footway       |-> Rat(5, 10),
     cycleway      |-> Rat(7, 10)]

LIGHTING_WEIGHTS ==
    [lit_yes     |-> Rat(5, 10),
     lit_limited |-> Rat(10, 10),
     lit_no      |-> Rat(20, 10),
     lit_unknown |-> Rat(15, 10)]

\* the weight field of each entry
REPORT_TYPES ==
    [loud        |-> [weight |-> Rat(20, 10)],
     dark        |-> [weight |-> Rat(18, 10)],
     crowded     |-> [weight |-> Rat(15, 10)],
     obstruction |-> [weight |-> Rat(30, 10)],
     safe        |-> [weight |-> Rat(7, 10)],
     quiet       |-> [weight |-> Rat(5, 10)]]

OSRM_SERVER == "http://localhost:5000"

OSRM_DEMO_SERVER == "https://router.project-osrm.org"

ROUTE_COLORS ==
    [fastest   |-> "#f59e0b",
     quietest  |-> "#10b981",
     brightest |-> "#22d3ee",
     default   |-> "#8b5cf6",
     alternate |-> "#6366f1"]

\* `lit_${lit}`
LitKey(lit) ==
    CASE lit = "yes"     -> "lit_yes"
      [] lit = "limited" -> "lit_limited"
      [] lit = "no"      -> "lit_no"
      [] lit = "unknown" -> "lit_unknown"
      [] OTHER           -> "lit_" \o lit

(***************************************************************************)
(* Input domains.                                                          *)
(***************************************************************************)
\* the OSM classes of the table, and one class the table does not have
HighwayValues == DOMAIN NOISE_WEIGHTS \cup {"service"}

\* the lit tags of the table, and one tag the table does not have
LitValues == {"yes", "limited", "no", "unknown", "24/7"}

PrefValues == {Rat(k, PrefSteps) : k \in 0..PrefSteps}

Days == 0..6

Hours == 0..23

Dates == [day : Days, hour : Hours]

\* the call in progress did not read the clock
NoDate == [day |-> -1, hour |-> -1]

\* no call has completed yet
NoCall == [fn |-> "none"]

(***************************************************************************)
(* src/utils/costFunction.js: the multipliers                              *)
(***************************************************************************)
\* mutant: the weight scaled by the preference instead of interpolated from 1.0
getNoiseMultiplier_scaledFromZero(edge, quietness) ==
    IF quietness = Zero THEN One
    ELSE LET highway     == StrOr(edge, "highway", "residential")
             baseNoise   == NumOr(NOISE_WEIGHTS, highway, One)
             scaledNoise == RMul(baseNoise, quietness)
         IN  MathMax(Rat(5, 10), MathMin(Num(3), scaledNoise))

getNoiseMultiplier(edge, quietness) ==
    IF quietness = Zero THEN One
    ELSE LET highway     == StrOr(edge, "highway", "residential")
             baseNoise   == NumOr(NOISE_WEIGHTS, highway, One)
             scaledNoise == RAdd(One, RMul(RSub(baseNoise, One), quietness))
         IN  MathMax(Rat(5, 10), MathMin(Num(3), scaledNoise))

\* mutant: night begins at 18 h instead of after it
getDarknessMultiplier_nightFromEighteen(edge, brightness, date) ==
    IF brightness = Zero THEN One
    ELSE LET hour    == date.hour
             isNight == hour < 6 \/ hour >= 18
         IN  IF ~isNight THEN One
             ELSE LET lit          == StrOr(edge, "lit", "unknown")
                      baseWeight   == NumOr(LIGHTING_WEIGHTS, LitKey(lit),
                                            LIGHTING_WEIGHTS.lit_unknown)
                      scaledWeight == RAdd(One, RMul(RSub(baseWeight, One), brightness))
                  IN  MathMax(Rat(5, 10), MathMin(Rat(25, 10), scaledWeight))

\* date is the value of `new Date()` at the call
getDarknessMultiplier(edge, brightness, date) ==
    IF brightness = Zero THEN One
    ELSE LET hour    == date.hour
             isNight == hour < 6 \/ hour > 18
         IN  IF ~isNight THEN One
             ELSE LET lit          == StrOr(edge, "lit", "unknown")
                      baseWeight   == NumOr(LIGHTING_WEIGHTS, LitKey(lit),
                                            LIGHTING_WEIGHTS.lit_unknown)
                      scaledWeight == RAdd(One, RMul(RSub(baseWeight, One), brightness))
                  IN  MathMax(Rat(5, 10), MathMin(Rat(25, 10), scaledWeight))

\* mutant: the weekend is Saturday and Sunday only
getTimeBasedMultiplier_weekendSatSun(edge, date) ==
    LET hour          == date.hour
        dayOfWeek     == date.day
        isWeekday     == dayOfWeek >= 1 /\ dayOfWeek <= 5
        isSchoolHours == (hour >= 7 /\ hour <= 9) \/ (hour >= 14 /\ hour <= 16)
        isWeekend     == dayOfWeek = 0 \/ dayOfWeek = 6
        isNightlife   == hour >= 21 \/ hour <= 2
        isMarketHours == hour >= 8 /\ hour <= 20
        m1 == IF Truthy(edge, "school_zone") /\ isWeekday /\ isSchoolHours
              THEN Rat(18, 10) ELSE One
        m2 == IF Truthy(edge, "nightlife_zone") /\ isWeekend /\ isNightlife
              THEN RMul(m1, Num(2)) ELSE m1
        m3 == IF Truthy(edge, "market_zone") /\ isMarketHours
              THEN RMul(m2, Rat(15, 10)) ELSE m2
    IN  m3

\* mutant: the nightlife window opens at 20 h, inside the market hours
getTimeBasedMultiplier_nightlifeFromTwenty(edge, date) ==
    LET hour          == date.hour
        dayOfWeek     == date.day
        isWeekday     == dayOfWeek >= 1 /\ dayOfWeek <= 5
        isSchoolHours == (hour >= 7 /\ hour <= 9) \/ (hour >= 14 /\ hour <= 16)
        isWeekend     == dayOfWeek = 0 \/ dayOfWeek = 5 \/ dayOfWeek = 6
        isNightlife   == hour >= 20 \/ hour <= 2
        isMarketHours == hour >= 8 /\ hour <= 20
        m1 == IF Truthy(edge, "school_zone") /\ isWeekday /\ isSchoolHours
              THEN Rat(18, 10) ELSE One
        m2 == IF Truthy(edge, "nightlife_zone") /\ isWeekend /\ isNightlife
              THEN RMul(m1, Num(2)) ELSE m1
        m3 == IF Truthy(edge, "market_zone") /\ isMarketHours
              THEN RMul(m2, Rat(15, 10)) ELSE m2
    IN  m3

getTimeBasedMultiplier(edge, date) ==
    LET hour          == date.hour
        dayOfWeek     == date.day
        isWeekday     == dayOfWeek >= 1 /\ dayOfWeek <= 5
        isSchoolHours == (hour >= 7 /\ hour <= 9) \/ (hour >= 14 /\ hour <= 16)
        isWeekend     == dayOfWeek = 0 \/ dayOfWeek = 5 \/ dayOfWeek = 6
        isNightlife   == hour >= 21 \/ hour <= 2
        isMarketHours == hour >= 8 /\ hour <= 20
        m0 == One
        m1 == IF Truthy(edge, "school_zone") /\ isWeekday /\ isSchoolHours
              THEN RMul(m0, Rat(18, 10)) ELSE m0
        m2 == IF Truthy(edge, "nightlife_zone") /\ isWeekend /\ isNightlife
              THEN RMul(m1, Num(2)) ELSE m1
        m3 == IF Truthy(edge, "market_zone") /\ isMarketHours
              THEN RMul(m2, Rat(15, 10)) ELSE m2
    IN  m3

\* Math.min(distToStart, distToEnd) when there are no coordinates
Infinity == [n |-> 1, d |-> 0]

\* the result of arithmetic on undefined
NaN == [n |-> 0, d |-> 0]

\* point.lat or point.lon is undefined: toRad(x - undefined) is NaN, and so
\* are a, c and R * c of haversineDistance, and Math.min(NaN, NaN)
UndefinedPosition(point) == "lat" \notin DOMAIN point \/ "lon" \notin DOMAIN point

\* On one meridian dLon = 0, so a = sin^2(dLat / 2), c = |dLat| and R * c is
\* the length of the arc between the latitudes: their difference in metres.
haversineDistance(lat1, lon1, lat2, lon2) ==
    CASE lon1 = lon2 -> Num(Abs(lat2 - lat1))

\* Off the meridian the trigonometry is kept exact on the grid of the
\* multiples of 60 degrees, where every cosine is rational.
CosDeg(deg) ==
    LET m == ((deg % 360) + 360) % 360
    IN  CASE m = 0   -> One
          [] m = 60  -> Rat(1, 2)
          [] m = 120 -> Rat(-1, 2)
          [] m = 180 -> Num(-1)
          [] m = 240 -> Rat(-1, 2)
          [] m = 300 -> Rat(1, 2)

\* Math.sin(x / 2) * Math.sin(x / 2) = (1 - cos x) / 2
SinSqHalfDeg(deg) == RDiv(RSub(One, CosDeg(deg)), Num(2))

\* Earth's radius in metres
R == 6371000

\* mutant: the cosine of the first latitude is taken twice
haversineDistanceDeg_firstLatitudeTwice(lat1, lon1, lat2, lon2) ==
    LET dLat == lat2 - lat1
        dLon == lon2 - lon1
        a    == RAdd(SinSqHalfDeg(dLat),
                     RMul(RMul(CosDeg(lat1), CosDeg(lat1)), SinSqHalfDeg(dLon)))
    IN  [R |-> R, a |-> a]

\* haversineDistance on the grid.  The result [R, a] stands for
\* R * 2 * atan2(sqrt(a), sqrt(1 - a)), which is 0 exactly when a = 0 and
\* grows strictly with a on [0, 1].
haversineDistanceDeg(lat1, lon1, lat2, lon2) ==
    LET dLat == lat2 - lat1
        dLon == lon2 - lon1
        a    == RAdd(SinSqHalfDeg(dLat),
                     RMul(RMul(CosDeg(lat1), CosDeg(lat2)), SinSqHalfDeg(dLon)))
    IN  [R |-> R, a |-> a]

\* mutant: only the first coordinate is measured
getDistanceToEdge_startOnly(point, edge) ==
    IF "coordinates" \notin DOMAIN edge \/ Len(edge.coordinates) = 0 THEN Infinity
    ELSE IF UndefinedPosition(point) THEN NaN
    ELSE LET start == edge.coordinates[1]
         IN  haversineDistance(point.lat, point.lon, start[2], start[1])

\* mutant: a segment without coordinates counts as lying under the report
getDistanceToEdge_missingIsNear(point, edge) ==
    IF "coordinates" \notin DOMAIN edge \/ Len(edge.coordinates) = 0 THEN Zero
    ELSE IF UndefinedPosition(point) THEN NaN
    ELSE LET start       == edge.coordinates[1]
             end         == edge.coordinates[Len(edge.coordinates)]
             distToStart == haversineDistance(point.lat, point.lon, start[2], start[1])
             distToEnd   == haversineDistance(point.lat, point.lon, end[2], end[1])
         IN  MathMin(distToStart, distToEnd)

\* a coordinate is the pair <<lon, lat>>
getDistanceToEdge(point, edge) ==
    IF "coordinates" \notin DOMAIN edge \/ Len(edge.coordinates) = 0 THEN Infinity
    ELSE IF UndefinedPosition(point) THEN NaN
    ELSE LET start       == edge.coordinates[1]
             end         == edge.coordinates[Len(edge.coordinates)]
             distToStart == haversineDistance(point.lat, point.lon, start[2], start[1])
             distToEnd   == haversineDistance(point.lat, point.lon, end[2], end[1])
         IN  MathMin(distToStart, distToEnd)

\* the body of the forEach callback: totalWeight after one report
ReportImpact(totalWeight, report, edge) ==
    LET distance == getDistanceToEdge(report, edge)
    IN  IF RLess(distance, Num(50)) /\ report.type \in DOMAIN REPORT_TYPES
        THEN LET reportType == REPORT_TYPES[report.type]
                 impact == RMul(reportType.weight,
                                RSub(One, RDiv(distance, Num(50))))
             IN  RAdd(totalWeight, impact)
        ELSE totalWeight

\* reports.forEach over the first k reports, from totalWeight = 1.0
RECURSIVE ForEachReport(_, _, _)
ForEachReport(edge, reports, k) ==
    IF k = 0 THEN One
    ELSE ReportImpact(ForEachReport(edge, reports, k - 1), reports[k], edge)

\* mutant: the sum is returned without the cap
getReportsMultiplier_uncapped(edge, reports) ==
    IF Len(reports) = 0 THEN One
    ELSE ForEachReport(edge, reports, Len(reports))

getReportsMultiplier(edge, reports) ==
    IF Len(reports) = 0 THEN One
    ELSE MathMin(Num(5), ForEachReport(edge, reports, Len(reports)))

calculateEdgeCost(edge, preferences, reports, date) ==
    LET baseCost           == NumOr(edge, "distance", Num(100))
        noiseMultiplier    == getNoiseMultiplier(edge,
                                  NumOr(preferences, "quietness", Rat(1, 2)))
        darknessMultiplier == getDarknessMultiplier(edge,
                                  NumOr(preferences, "brightness", Rat(1, 2)), date)
        reportsMultiplier  == getReportsMultiplier(edge, reports)
        timeMultiplier     == getTimeBasedMultiplier(edge, date)
    IN  RMul(RMul(RMul(RMul(baseCost, noiseMultiplier), darknessMultiplier),
                  reportsMultiplier), timeMultiplier)

(***************************************************************************)
(* src/utils/costFunction.js: the route scorer                             *)
(***************************************************************************)
\* route.legs.forEach over the first k legs: the steps concatenated so far
RECURSIVE ConcatSteps(_, _)
ConcatSteps(legs, k) ==
    IF k = 0 THEN << >>
    ELSE IF "steps" \in DOMAIN legs[k]
         THEN ConcatSteps(legs, k - 1) \o legs[k].steps
         ELSE ConcatSteps(legs, k - 1)

\* mutant: only the first leg's steps are listed
listSteps_firstLeg(route) ==
    IF "legs" \in DOMAIN route /\ Len(route.legs) > 0
    THEN ConcatSteps(route.legs, 1)
    ELSE << >>

listSteps(route) ==
    IF "legs" \in DOMAIN route THEN ConcatSteps(route.legs, Len(route.legs))
    ELSE << >>

\* mutant: the guard tests for a missing duration, not for a zero one, so a
\* zero duration gives an infinite average speed, capped at 1.0
calculateRouteNoiseScore_noDurationGuard(route) ==
    IF NumOr(route, "distance", Zero) = Zero \/ "duration" \notin DOMAIN route
    THEN Rat(5, 10)
    ELSE LET speedScore == IF route.duration = Zero THEN One
                           ELSE MathMin(One, RDiv(RDiv(route.distance, route.duration),
                                                  Num(15)))
             steps      == listSteps(route)
             turnsPerKm == IF Len(steps) > 0
                           THEN RDiv(Num(Len(steps)), RDiv(route.distance, Num(1000)))
                           ELSE Zero
             turnScore  == RDiv(One, RAdd(One, RMul(Rat(1, 10), turnsPerKm)))
             noise      == RAdd(RMul(speedScore, Rat(7, 10)), RMul(turnScore, Rat(3, 10)))
         IN  MathMax(Rat(1, 10), MathMin(Rat(9, 10), noise))

calculateRouteNoiseScore(route) ==
    IF NumOr(route, "distance", Zero) = Zero \/ NumOr(route, "duration", Zero) = Zero
    THEN Rat(5, 10)
    ELSE LET avgSpeed   == RDiv(route.distance, route.duration)
             speedScore == MathMin(One, RDiv(avgSpeed, Num(15)))
             steps      == listSteps(route)
             turnsPerKm == IF Len(steps) > 0
                           THEN RDiv(Num(Len(steps)), RDiv(route.distance, Num(1000)))
                           ELSE Zero
             turnScore  == RDiv(One, RAdd(One, RMul(Rat(1, 10), turnsPerKm)))
             noise      == RAdd(RMul(speedScore, Rat(7, 10)), RMul(turnScore, Rat(3, 10)))
         IN  MathMax(Rat(1, 10), MathMin(Rat(9, 10), noise))

\* mutant: the lighting score rises three times as fast as the noise score
calculateRouteLightingScore_steeper(route) ==
    LET noiseScore == calculateRouteNoiseScore(route)
    IN  MathMax(Rat(2, 10), MathMin(Rat(9, 10), RMul(noiseScore, Num(3))))

calculateRouteLightingScore(route) ==
    LET noiseScore == calculateRouteNoiseScore(route)
    IN  MathMax(Rat(2, 10), MathMin(Rat(9, 10), RMul(noiseScore, Rat(12, 10))))

calculateRouteSafetyScore(route) ==
    LET lighting == calculateRouteLightingScore(route)
    IN  lighting

\* preferences.quietness and preferences.brightness as numbers
PrefNumber(preferences, f) == IF f \in DOMAIN preferences THEN preferences[f] ELSE NaN

\* mutant: the two partial scores are added and not halved
scoreRoute_notHalved(route, preferences) ==
    LET noiseScore    == calculateRouteNoiseScore(route)
        lightingScore == calculateRouteLightingScore(route)
        quietness     == PrefNumber(preferences, "quietness")
        brightness    == PrefNumber(preferences, "brightness")
        overallScore  ==
            IF quietness = NaN \/ brightness = NaN THEN NaN
            ELSE RAdd(RSub(Num(100), RMul(RMul(noiseScore, quietness), Num(100))),
                      RMul(RMul(lightingScore, brightness), Num(100)))
        stats == [totalDistance |-> NumOr(route, "distance", Zero),
                  estimatedTime |-> NumOr(route, "duration", Zero),
                  noiseScore    |-> noiseScore,
                  lightingScore |-> lightingScore,
                  safetyScore   |-> calculateRouteSafetyScore(route),
                  overallScore  |-> overallScore]
    IN  ("stats" :> stats) @@ route

scoreRoute(route, preferences) ==
    LET noiseScore    == calculateRouteNoiseScore(route)
        lightingScore == calculateRouteLightingScore(route)
        safetyScore   == calculateRouteSafetyScore(route)
        quietness     == PrefNumber(preferences, "quietness")
        brightness    == PrefNumber(preferences, "brightness")
        overallScore  ==
            IF quietness = NaN \/ brightness = NaN THEN NaN
            ELSE LET quietnessScore  == RSub(Num(100),
                                             RMul(RMul(noiseScore, quietness), Num(100)))
                     brightnessScore == RMul(RMul(lightingScore, brightness), Num(100))
                 IN  RDiv(RAdd(quietnessScore, brightnessScore), Num(2))
        stats == [totalDistance |-> NumOr(route, "distance", Zero),
                  estimatedTime |-> NumOr(route, "duration", Zero),
                  noiseScore    |-> noiseScore,
                  lightingScore |-> lightingScore,
                  safetyScore   |-> safetyScore,
                  overallScore  |-> overallScore]
    IN  ("stats" :> stats) @@ route

\* mutant: the stats are assigned onto the argument (route.stats = stats)
RouteOnReturn_annotated(route, preferences) ==
    ("stats" :> scoreRoute(route, preferences).stats) @@ route

\* the caller's route object when scoreRoute returns: the body assigns
\* nothing to route or to its members, the result is a fresh object literal
RouteOnReturn(route, preferences) == route

\* mutant: after 18 h the scorer reads the clock and leaves out the halving
scoreRouteAt_clocked(route, preferences, date) ==
    IF date.hour > 18 THEN scoreRoute_notHalved(route, preferences)
    ELSE scoreRoute(route, preferences)

\* a call of scoreRoute made at a date: the scorer and the three score
\* functions read neither the clock nor a variable of their module
scoreRouteAt(route, preferences, date) == scoreRoute(route, preferences)

(***************************************************************************)
(* Retention of reports: server/index.js and src/services/reportService.js *)
(* Times are whole hours.                                                  *)
(***************************************************************************)
\* expiryMap[type] || 24
getExpiryHours(type) ==
    CASE type = "loud"        -> 4
      [] type = "crowded"     -> 2
      [] type = "obstruction" -> 672
      [] type = "dark"        -> 720
      [] type = "safe"        -> 168
      [] type = "quiet"       -> 168
      [] OTHER                -> 24

\* the switch of the client: setHours(getHours() + h) or setDate(getDate() + d)
\* on the date t, a day being 24 hours
getExpiryDate(type, t) ==
    CASE type = "loud"        -> t + 4
      [] type = "crowded"     -> t + 2
      [] type = "obstruction" -> t + 28 * 24
      [] type = "dark"        -> t + 30 * 24
      [] OTHER                -> t + 24

(***************************************************************************)
(* src/services/routingService.js                                          *)
(***************************************************************************)
getRouteColor(index, preferences) ==
    IF "quietness" \in DOMAIN preferences /\ RLess(Rat(7, 10), preferences.quietness)
    THEN (IF index = 0 THEN ROUTE_COLORS.quietest ELSE ROUTE_COLORS.alternate)
    ELSE IF "brightness" \in DOMAIN preferences
            /\ RLess(Rat(7, 10), preferences.brightness)
    THEN (IF index = 0 THEN ROUTE_COLORS.brightest ELSE ROUTE_COLORS.alternate)
    ELSE (IF index = 0 THEN ROUTE_COLORS.default ELSE ROUTE_COLORS.alternate)

\* the callback of data.routes.map: index counts from 0
ProcessRoute(route, index, preferences) ==
    LET processed == [id       |-> "route-" \o ToString(index),
                      geometry |-> route.geometry,
                      distance |-> route.distance,
                      duration |-> route.duration,
                      legs     |-> route.legs,
                      color    |-> getRouteColor(index, preferences)]
    IN  scoreRoute(processed, preferences)

\* r.stats?.overallScore || 0
SortKey(r) ==
    IF r.stats.overallScore = NaN THEN Zero ELSE r.stats.overallScore

\* mutant: the comparator is (a, b) => key(a) - key(b), an ascending sort
SortsBefore_ascending(a, b) == RLess(SortKey(a), SortKey(b))

\* the comparator (a, b) => key(b) - key(a) is negative: a sorts before b
SortsBefore(a, b) == RLess(SortKey(b), SortKey(a))

\* mutant: x goes in front of the elements it compares equal to
RECURSIVE InsertRoute_beforeEquals(_, _)
InsertRoute_beforeEquals(sorted, x) ==
    IF sorted = << >> THEN << x >>
    ELSE IF ~SortsBefore(Head(sorted), x) THEN << x >> \o sorted
    ELSE << Head(sorted) >> \o InsertRoute_beforeEquals(Tail(sorted), x)

\* Array.prototype.sort is stable: x goes behind every element it does not
\* sort before
RECURSIVE InsertRoute(_, _)
InsertRoute(sorted, x) ==
    IF sorted = << >> THEN << x >>
    ELSE IF SortsBefore(x, Head(sorted)) THEN << x >> \o sorted
    ELSE << Head(sorted) >> \o InsertRoute(Tail(sorted), x)

RECURSIVE SortRoutes(_, _)
SortRoutes(routes, k) ==
    IF k = 0 THEN << >> ELSE InsertRoute(SortRoutes(routes, k - 1), routes[k])

\* mutant: every route is marked
MarkRecommended_all(routes) ==
    [i \in 1..Len(routes) |-> ("recommended" :> TRUE) @@ routes[i]]

\* routes[0].recommended = true
MarkRecommended(routes) ==
    [i \in 1..Len(routes) |->
        IF i = 1 THEN ("recommended" :> TRUE) @@ routes[i] ELSE routes[i]]

\* the fetch resolved, the response is ok, its code is 'Ok' and it has a
\* first route
HasRoutes(response) == response.ok /\ Len(response.routes) > 0

\* the try block after the fetch: the routes returned, or the error thrown
\* (fetch rejected, response not ok, code not 'Ok', no routes, or routes[0]
\* undefined for an empty list)
TryGetRoutes(response, preferences) ==
    IF HasRoutes(response)
    THEN LET routes == [i \in 1..Len(response.routes) |->
                           ProcessRoute(response.routes[i], i - 1, preferences)]
         IN  [routes |-> MarkRecommended(SortRoutes(routes, Len(routes)))]
    ELSE [error |-> "Routing error"]

\* one call of getRoutes with the oracle's answers in the order they are
\* asked for: the value returned or thrown, the servers asked and osrmServer
\* at the end
\* mutant: the retry goes to the same server and osrmServer stays
getRoutes_retrySameServer(server, responses, preferences) ==
    IF ~HasRoutes(responses[1]) /\ server = OSRM_DEMO_SERVER
    THEN [result     |-> TryGetRoutes(responses[2], preferences),
          requests   |-> << server, server >>,
          osrmServer |-> server]
    ELSE [result     |-> TryGetRoutes(responses[1], preferences),
          requests   |-> << server >>,
          osrmServer |-> server]

getRoutes(server, responses, preferences) ==
    IF ~HasRoutes(responses[1]) /\ server = OSRM_DEMO_SERVER
    THEN [result     |-> TryGetRoutes(responses[2], preferences),
          requests   |-> << server, OSRM_SERVER >>,
          osrmServer |-> OSRM_SERVER]
    ELSE [result     |-> TryGetRoutes(responses[1], preferences),
          requests   |-> << server >>,
          osrmServer |-> server]

(***************************************************************************)
(* Arguments of the calls.                                                 *)
(***************************************************************************)
HighwayEdges == Optional("highway", HighwayValues)

LitEdges == Optional("lit", LitValues)

ZoneEdges ==
    { s @@ n @@ m : s \in Optional("school_zone", BOOLEAN),
                    n \in Optional("nightlife_zone", BOOLEAN),
                    m \in Optional("market_zone", BOOLEAN) }

\* a segment from latitude 0 over 60 to 100, one of a single point, one
\* with an empty coordinate list and one without coordinates
CoordinateEdges ==
    Optional("coordinates",
             { << >>, << <<0, 0>> >>, << <<0, 0>>, <<0, 60>>, <<0, 100>> >> })

\* latitudes on an end of the segment, 20 m from it, 50 m from both ends,
\* and 25 m beyond the far end
ReportLats == {0, 20, 50, 125}

\* the categories of the table, and one the table does not have
ReportTypeValues == DOMAIN REPORT_TYPES \cup {"flooded"}

Reports == [lat : ReportLats, lon : {0}, type : ReportTypeValues]

\* reports as submitReport builds them and as GET /api/reports returns them:
\* the position is in the fields lat and lng
StoredReports == [lat : {0, 100}, lng : {0}, type : {"loud", "quiet"}]

ReportLists ==
    UNION { [1..k -> Reports] : k \in 0..MaxReports }
    \cup { << r >> : r \in StoredReports }

\* segments of which every attribute is missing or has a value the tables do
\* not know
SparseEdges ==
    { h @@ l @@ d @@ c :
        h \in Optional("highway", {"service"}),
        l \in Optional("lit", {"24/7"}),
        d \in Optional("distance", {Num(200)}),
        c \in Optional("coordinates", {<< >>}) }

\* the segments priced by calculateEdgeCost
CostEdges ==
    { h @@ l @@ z @@ d @@ c :
        h \in Optional("highway", {"motorway", "footway", "service"}),
        l \in Optional("lit", {"yes", "no"}),
        z \in {EmptyObject,
               [school_zone |-> TRUE, nightlife_zone |-> TRUE, market_zone |-> TRUE]},
        d \in Optional("distance", {Num(0), Num(200)}),
        c \in {"coordinates" :> << <<0, 0>>, <<0, 100>> >>} }
    \cup SparseEdges

CostPreferences ==
    { q @@ b : q \in Optional("quietness", PrefValues),
               b \in Optional("brightness", PrefValues) }

\* no report, or a loud one at 20 m with one of an unknown category at 0 m
CostReports ==
    { << >>, << [lat |-> 20, lon |-> 0, type |-> "loud"],
                [lat |-> 0, lon |-> 0, type |-> "flooded"] >> }

\* every hour of a Friday, the day that is both a weekday and a weekend day
CostDates == {d \in Dates : d.day = 5}

Steps(k) == [i \in 1..k |-> "step"]

LegLists ==
    { << >>,
      << EmptyObject >>,
      << [steps |-> Steps(2)] >>,
      << [steps |-> Steps(1)], EmptyObject, [steps |-> Steps(1)] >>,
      << [steps |-> Steps(20)] >> }

\* a route getRoutes returned earlier, handed to the scorer once more
ScoredRoute ==
    [id |-> "route-0", geometry |-> "A", distance |-> Num(1000),
     duration |-> Num(700), legs |-> << [steps |-> Steps(2)] >>,
     color |-> ROUTE_COLORS.default, recommended |-> TRUE,
     stats |-> [overallScore |-> Num(50)]]

Routes ==
    { d @@ t @@ l :
        d \in Optional("distance", {Num(0), Num(1000), Num(1100)}),
        t \in Optional("duration", {Num(0), Num(60), Num(700), Num(900)}),
        l \in Optional("legs", LegLists) }
    \cup {ScoredRoute}

\* candidate routes of the oracle: a walk with 2 steps, a longer one with 20
\* steps, a fast one without steps, and one from a point to itself
OracleRoutes ==
    { [geometry |-> "A", distance |-> Num(1000), duration |-> Num(700),
       legs |-> << [steps |-> Steps(2)] >>],
      [geometry |-> "B", distance |-> Num(1100), duration |-> Num(900),
       legs |-> << [steps |-> Steps(20)] >>],
      [geometry |-> "C", distance |-> Num(1000), duration |-> Num(60),
       legs |-> << [steps |-> Steps(0)] >>],
      [geometry |-> "D", distance |-> Num(0), duration |-> Num(0),
       legs |-> << [steps |-> Steps(0)] >>] }

\* an answer of the oracle: a failure, or a list of routes
Responses ==
    {[ok |-> FALSE]}
    \cup {[ok |-> TRUE, routes |-> rs] :
            rs \in UNION { [1..k -> OracleRoutes] : k \in 0..MaxRoutes }}

\* what a caller may pass: the values k / PrefSteps, nothing at all (the
\* default parameter {}), or a quietness of 2
RoutePreferences ==
    [quietness : PrefValues, brightness : PrefValues]
    \cup {EmptyObject, [quietness |-> Num(2), brightness |-> Zero]}

(***************************************************************************)
(* Actions: a call runs to completion in one step; Return leaves it.       *)
(***************************************************************************)
Idle == fn = "idle"

CallGetNoiseMultiplier ==
    /\ Idle
    /\ UNCHANGED <<osrmServer, prev, calls, storeVars>>
    /\ \E edge \in HighwayEdges, quietness \in PrefValues :
          /\ fn' = "getNoiseMultiplier"
          /\ args' = [edge |-> edge, quietness |-> quietness]
          /\ now' = NoDate
          /\ ret' = getNoiseMultiplier(edge, quietness)

CallGetDarknessMultiplier ==
    /\ Idle
    /\ UNCHANGED <<osrmServer, prev, calls, storeVars>>
    /\ \E edge \in LitEdges, brightness \in PrefValues, date \in Dates :
          /\ fn' = "getDarknessMultiplier"
          /\ args' = [edge |-> edge, brightness |-> brightness]
          /\ now' = date
          /\ ret' = getDarknessMultiplier(edge, brightness, date)

CallGetTimeBasedMultiplier ==
    /\ Idle
    /\ UNCHANGED <<osrmServer, prev, calls, storeVars>>
    /\ \E edge \in ZoneEdges, date \in Dates :
          /\ fn' = "getTimeBasedMultiplier"
          /\ args' = [edge |-> edge]
          /\ now' = date
          /\ ret' = getTimeBasedMultiplier(edge, date)

CallGetReportsMultiplier ==
    /\ Idle
    /\ UNCHANGED <<osrmServer, prev, calls, storeVars>>
    /\ \E edge \in CoordinateEdges, reports \in ReportLists :
          /\ fn' = "getReportsMultiplier"
          /\ args' = [edge |-> edge, reports |-> reports]
          /\ now' = NoDate
          /\ ret' = getReportsMultiplier(edge, reports)

CallCalculateEdgeCost ==
    /\ Idle
    /\ UNCHANGED <<osrmServer, prev, calls, storeVars>>
    /\ \E edge \in CostEdges, preferences \in CostPreferences,
          reports \in CostReports, date \in CostDates :
          /\ fn' = "calculateEdgeCost"
          /\ args' = [edge |-> edge, preferences |-> preferences, reports |-> reports]
          /\ now' = date
          /\ ret' = calculateEdgeCost(edge, preferences, reports, date)

CallScoreRoute ==
    /\ Idle
    /\ UNCHANGED <<osrmServer, prev, calls, storeVars>>
    /\ \E route \in Routes, preferences \in CostPreferences :
          /\ fn' = "scoreRoute"
          /\ args' = [route |-> route, preferences |-> preferences,
                       routeOnReturn |-> RouteOnReturn(route, preferences)]
          /\ now' = NoDate
          /\ ret' = scoreRoute(route, preferences)

\* the second answer is asked for only when the first call fails on the
\* demo server
\* the hours at which a report is created
CreationTimes == {0, 100}

CallGetExpiryHours ==
    /\ Idle
    /\ UNCHANGED <<osrmServer, prev, calls, storeVars>>
    /\ \E type \in ReportTypeValues :
          /\ fn' = "getExpiryHours"
          /\ args' = [type |-> type]
          /\ now' = NoDate
          /\ ret' = getExpiryHours(type)

CallGetExpiryDate ==
    /\ Idle
    /\ UNCHANGED <<osrmServer, prev, calls, storeVars>>
    /\ \E type \in ReportTypeValues, t \in CreationTimes :
          /\ fn' = "getExpiryDate"
          /\ args' = [type |-> type, at |-> t]
          /\ now' = NoDate
          /\ ret' = getExpiryDate(type, t)

CallGetRoutes ==
    /\ Idle
    /\ UNCHANGED <<prev, calls, storeVars>>
    /\ \E preferences \in RoutePreferences, first \in Responses :
          \E responses \in
                IF ~HasRoutes(first) /\ osrmServer = OSRM_DEMO_SERVER
                THEN { << first, second >> : second \in Responses }
                ELSE { << first >> } :
             \E call \in {getRoutes(osrmServer, responses, preferences)} :
                 /\ fn' = "getRoutes"
                 /\ args' = [preferences |-> preferences, responses |-> responses]
                 /\ now' = NoDate
                 /\ ret' = [result |-> call.result, requests |-> call.requests]
                 /\ osrmServer' = call.osrmServer

Return ==
    /\ ~Idle
    /\ UNCHANGED <<osrmServer, prev, calls, storeVars>>
    /\ fn' = "idle"
    /\ args' = EmptyObject
    /\ now' = NoDate
    /\ ret' = Zero

(***************************************************************************)
(* The report stores.  The server keeps rows in the table reports, the      *)
(* client keeps a list in localStorage when the server cannot be reached.  *)
(* One report is submitted to each store.                                  *)
(***************************************************************************)
MaxClock == 3

MaxUpvotes == 1

MaxDeleting == 2

ReportIds == {1}

StoreTypes == {"crowded", "dark"}

StoreLats == {1, 10}

StoreLngs == {1}

BoundsValues == {[south |-> 0, north |-> 5, west |-> 0, east |-> 5]}

EmptyTable == [nextId |-> 1, rows |-> << >>]

EmptyStorage == [nextId |-> 1, stored |-> << >>]

\* mutant: a report goes at more than three downvotes
TooManyDownvotes_moreThanThree(downvotes) == downvotes > 3

\* downvotes >= 3, in the handler of the server and in downvoteReport
TooManyDownvotes(downvotes) == downvotes >= 3

\* mutant: a report never counts as expired
isExpired_never(report, t) == FALSE

\* new Date(report.expiresAt) < new Date()
isExpired(report, t) == report.expiresAt < t

\* JSON.parse of the stored list, without the expired reports
getLocalReports(t) == SelectSeq(local.stored, LAMBDA r : ~isExpired(r, t))

RECURSIVE FindIndex(_, _, _)
FindIndex(reports, id, k) ==
    IF k > Len(reports) THEN 0
    ELSE IF reports[k].id = id THEN k
    ELSE FindIndex(reports, id, k + 1)

\* the WHERE clause of GET /api/reports: ST_Within of the envelope, which
\* leaves out its border, and expires_at > NOW()
SelectReports(bounds, t) ==
    { [id |-> id] @@ db.rows[id] : id \in
        { i \in DOMAIN db.rows :
            /\ db.rows[i].lat > bounds.south /\ db.rows[i].lat < bounds.north
            /\ db.rows[i].lng > bounds.west /\ db.rows[i].lng < bounds.east
            /\ db.rows[i].expires_at > t } }

\* the filter of the localStorage fallback
FilterLocalReports(bounds, t) ==
    LET reports == getLocalReports(t)
        kept    == SelectSeq(reports, LAMBDA r :
                       /\ r.lat >= bounds.south /\ r.lat <= bounds.north
                       /\ r.lng >= bounds.west /\ r.lng <= bounds.east
                       /\ ~isExpired(r, t))
    IN  {kept[i] : i \in 1..Len(kept)}

Tick ==
    /\ Idle
    /\ clock < MaxClock
    /\ clock' = clock + 1
    /\ UNCHANGED <<fn, args, now, ret, osrmServer, prev, calls, db, local, deleting>>

\* submitReport: POST /api/reports inserts a row; when the server cannot be
\* reached, or refuses, the report is pushed onto the list in localStorage
SubmitReport ==
    /\ Idle
    /\ \E type \in StoreTypes, lat \in StoreLats, lng \in StoreLngs, backend \in BOOLEAN :
          /\ fn' = "submitReport"
          /\ args' = [type |-> type, lat |-> lat, lng |-> lng, backend |-> backend]
          /\ now' = NoDate
          /\ IF backend
             THEN /\ db.nextId \in ReportIds
                  /\ LET row == [type |-> type, lat |-> lat, lng |-> lng,
                                 expires_at |-> clock + getExpiryHours(type),
                                 upvotes |-> 0, downvotes |-> 0]
                     IN  /\ db' = [nextId |-> db.nextId + 1,
                                   rows   |-> (db.nextId :> row) @@ db.rows]
                         /\ ret' = [id |-> db.nextId] @@ row
                  /\ UNCHANGED local
             ELSE /\ local.nextId \in ReportIds
                  /\ LET newReport == [id |-> local.nextId, type |-> type,
                                       lat |-> lat, lng |-> lng,
                                       expiresAt |-> getExpiryDate(type, clock),
                                       upvotes |-> 0, downvotes |-> 0]
                     IN  /\ local' = [nextId |-> local.nextId + 1,
                                      stored |-> Append(getLocalReports(clock), newReport)]
                         /\ ret' = newReport
                  /\ UNCHANGED db
    /\ UNCHANGED <<osrmServer, prev, calls, clock, deleting>>

\* POST /api/reports/:id/upvote
PostUpvote ==
    /\ Idle
    /\ \E id \in ReportIds :
          /\ fn' = "POST upvote"
          /\ args' = [id |-> id]
          /\ now' = NoDate
          /\ IF id \in DOMAIN db.rows
             THEN /\ db.rows[id].upvotes < MaxUpvotes
                  /\ db' = [db EXCEPT !.rows[id].upvotes = @ + 1]
                  /\ ret' = [id |-> id, upvotes |-> db.rows[id].upvotes + 1]
             ELSE /\ UNCHANGED db
                  /\ ret' = [error |-> "Report not found"]
    /\ UNCHANGED <<osrmServer, prev, calls, local, clock, deleting>>

\* POST /api/reports/:id/downvote up to its second await: the UPDATE is done;
\* below three downvotes the row is the answer, from three on the DELETE is
\* sent and the answer waits for it
PostDownvote ==
    /\ Idle
    /\ \E id \in ReportIds :
          /\ fn' = "POST downvote"
          /\ args' = [id |-> id]
          /\ now' = NoDate
          /\ IF id \in DOMAIN db.rows
             THEN /\ db' = [db EXCEPT !.rows[id].downvotes = @ + 1]
                  /\ IF TooManyDownvotes(db.rows[id].downvotes + 1)
                     THEN /\ Len(deleting) < MaxDeleting
                          /\ deleting' = Append(deleting, id)
                          /\ ret' = [pending |-> TRUE]
                     ELSE /\ UNCHANGED deleting
                          /\ ret' = [id |-> id, downvotes |-> db.rows[id].downvotes + 1]
             ELSE /\ UNCHANGED <<db, deleting>>
                  /\ ret' = [error |-> "Report not found"]
    /\ UNCHANGED <<osrmServer, prev, calls, local, clock>>

\* the DELETE of a downvote request is done and the request is answered
PostDownvoteDeleted ==
    /\ Idle
    /\ \E k \in 1..Len(deleting) :
          /\ fn' = "POST downvote"
          /\ args' = [id |-> deleting[k]]
          /\ now' = NoDate
          /\ db' = [db EXCEPT !.rows = [i \in DOMAIN db.rows \ {deleting[k]} |-> db.rows[i]]]
          /\ deleting' = SubSeq(deleting, 1, k - 1) \o SubSeq(deleting, k + 1, Len(deleting))
          /\ ret' = [message |-> "Report removed due to downvotes"]
    /\ UNCHANGED <<osrmServer, prev, calls, local, clock>>

\* upvoteReport of the client, on localStorage
upvoteReport ==
    /\ Idle
    /\ \E id \in ReportIds :
          LET reports == getLocalReports(clock)
              k       == FindIndex(reports, id, 1)
          IN  /\ fn' = "upvoteReport"
              /\ args' = [id |-> id, found |-> k > 0]
              /\ now' = NoDate
              /\ ret' = Zero
              /\ IF k > 0
                 THEN /\ reports[k].upvotes < MaxUpvotes
                      /\ local' = [local EXCEPT !.stored =
                                      [reports EXCEPT ![k].upvotes = @ + 1]]
                 ELSE UNCHANGED local
    /\ UNCHANGED <<osrmServer, prev, calls, db, clock, deleting>>

\* downvoteReport of the client, on localStorage
downvoteReport ==
    /\ Idle
    /\ \E id \in ReportIds :
          LET reports == getLocalReports(clock)
              k       == FindIndex(reports, id, 1)
          IN  /\ fn' = "downvoteReport"
              /\ args' = [id |-> id, found |-> k > 0]
              /\ now' = NoDate
              /\ ret' = Zero
              /\ IF k > 0
                 THEN LET voted == [reports EXCEPT ![k].downvotes = @ + 1]
                      IN  IF TooManyDownvotes(voted[k].downvotes)
                          THEN local' = [local EXCEPT !.stored =
                                           SelectSeq(voted, LAMBDA r : r.id # id)]
                          ELSE local' = [local EXCEPT !.stored = voted]
                 ELSE UNCHANGED local
    /\ UNCHANGED <<osrmServer, prev, calls, db, clock, deleting>>

\* getReportsInArea: the rows GET /api/reports selects, or, the server not
\* answering, the filtered list of localStorage
getReportsInArea ==
    /\ Idle
    /\ \E bounds \in BoundsValues, backend \in BOOLEAN :
          /\ fn' = "getReportsInArea"
          /\ args' = [bounds |-> bounds, backend |-> backend]
          /\ now' = NoDate
          /\ ret' = IF backend THEN SelectReports(bounds, clock)
                    ELSE FilterLocalReports(bounds, clock)
    /\ UNCHANGED <<osrmServer, prev, calls, storeVars>>

\* the getRoutes calls that may overlap, and a call not yet made
MaxCalls == 2

CallIds == 1..MaxCalls

NotCalled == [pc |-> "idle"]

Init ==
    /\ fn = "idle"
    /\ args = EmptyObject
    /\ now = NoDate
    /\ ret = Zero
    /\ osrmServer = OSRM_DEMO_SERVER
    /\ prev = NoCall
    /\ calls = [c \in CallIds |-> NotCalled]
    /\ db = EmptyTable
    /\ local = EmptyStorage
    /\ clock = 0
    /\ deleting = << >>

Next ==
    \/ CallGetNoiseMultiplier
    \/ CallGetDarknessMultiplier
    \/ CallGetTimeBasedMultiplier
    \/ CallGetReportsMultiplier
    \/ CallCalculateEdgeCost
    \/ CallScoreRoute
    \/ CallGetExpiryHours
    \/ CallGetExpiryDate
    \/ Return

Spec == Init /\ [][Next]_vars

\* the routing service alone
NextRoutes ==
    \/ CallGetRoutes
    \/ Return

SpecRoutes == Init /\ [][NextRoutes]_vars

(***************************************************************************)
(* One call made twice.  A first call is made and remembered in prev when  *)
(* it returns; later the same function is called again with the same       *)
(* arguments, at whatever the clock then says, possibly after a routing    *)
(* request that failed over to the other server.                           *)
(***************************************************************************)
\* mutant: with an active report about, the routes are scored for quietness
getRoutesAt_reportAware(server, responses, preferences, date, reports) ==
    IF reports = {} THEN getRoutes(server, responses, preferences)
    ELSE getRoutes(server, responses, [quietness |-> One, brightness |-> Zero])

\* a call of getRoutes made at a date, with the active reports of the
\* stores: getRoutes and scoreRoute take no report, call neither the report
\* service nor calculateEdgeCost, and read no clock
getRoutesAt(server, responses, preferences, date, reports) ==
    getRoutes(server, responses, preferences)

\* the reports active in the one area
ActiveReports ==
    UNION { SelectReports(bounds, clock) \cup FilterLocalReports(bounds, clock) :
            bounds \in BoundsValues }

\* the oracle's answers of the routing requests made twice
RepeatAnswers ==
    { << [ok |-> TRUE, routes |-> rs] >> :
        rs \in { r \in [1..2 -> OracleRoutes] :
                  << r[1].geometry, r[2].geometry >> \in
                     {<<"A", "B">>, <<"B", "A">>, <<"C", "D">>} } }

GridLats == {-60, 0, 60}

GridLons == {-120, -60, 0, 60, 120, 180}

Friday(hours) == {d \in Dates : d.day = 5 /\ d.hour \in hours}

\* the calls made twice, each with the dates of its first execution
RepeatCalls ==
    { [fn |-> "scoreRoute", args |-> [route |-> r, preferences |-> p],
       dates |-> Friday({8})] : r \in Routes, p \in CostPreferences }
    \cup
    { [fn |-> "getDarknessMultiplier", args |-> [edge |-> e, brightness |-> b],
       dates |-> Friday({5, 6, 12, 18, 19})] : e \in LitEdges, b \in PrefValues }
    \cup
    { [fn |-> "getTimeBasedMultiplier", args |-> [edge |-> e],
       dates |-> Friday({8, 12, 22})] : e \in ZoneEdges }
    \cup
    { [fn |-> "calculateEdgeCost",
       args |-> [edge |-> e, preferences |-> p, reports |-> << >>],
       dates |-> Friday({8, 22})] :
         e \in SparseEdges \cup {[school_zone |-> TRUE, lit |-> "no"]},
         p \in [quietness : PrefValues, brightness : PrefValues] }
    \cup
    { [fn |-> "haversineDistance",
       args |-> [lat1 |-> lat1, lon1 |-> lon1, lat2 |-> lat2, lon2 |-> lon2],
       dates |-> Friday({8})] :
         lat1 \in GridLats, lon1 \in GridLons, lat2 \in GridLats, lon2 \in GridLons }

\* the routing requests made twice
RepeatRequests ==
    { [preferences |-> p, responses |-> rs] :
        p \in [quietness : PrefValues, brightness : PrefValues], rs \in RepeatAnswers }

\* the clock at the second execution
AgainDates(f) ==
    CASE f = "getTimeBasedMultiplier" -> {d \in Dates : d.day \in {5, 6}}
      [] f = "scoreRoute"             -> Friday({8, 22})
      [] f = "haversineDistance"      -> Friday({8, 22})
      [] OTHER                        -> Friday(Hours)

\* the function f applied to the arguments a, new Date() giving date
Invoke(f, a, date) ==
    CASE f = "scoreRoute"             -> scoreRouteAt(a.route, a.preferences, date)
      [] f = "getDarknessMultiplier"  -> getDarknessMultiplier(a.edge, a.brightness, date)
      [] f = "getTimeBasedMultiplier" -> getTimeBasedMultiplier(a.edge, date)
      [] f = "calculateEdgeCost"      ->
             calculateEdgeCost(a.edge, a.preferences, a.reports, date)
      [] f = "haversineDistance"      ->
             haversineDistanceDeg(a.lat1, a.lon1, a.lat2, a.lon2)

CallFirst ==
    /\ Idle
    /\ prev = NoCall
    /\ UNCHANGED <<osrmServer, prev, calls, storeVars>>
    /\ \E call \in RepeatCalls :
       \E date \in call.dates :
          /\ fn' = call.fn
          /\ args' = call.args
          /\ now' = date
          /\ ret' = Invoke(call.fn, call.args, date)

\* the first call returns and is remembered
ReturnFirst ==
    /\ ~Idle
    /\ prev = NoCall
    /\ prev' = [fn |-> fn, args |-> args, now |-> now, ret |-> ret]
    /\ fn' = "idle"
    /\ args' = EmptyObject
    /\ now' = NoDate
    /\ ret' = Zero
    /\ UNCHANGED <<osrmServer, calls, storeVars>>

\* getRoutes called with the oracle answering: a first time in the morning,
\* or again with the arguments of the first call, whatever the hour and the
\* reports active by then
CallGetRoutesAt ==
    /\ Idle
    /\ prev = NoCall \/ prev.fn = "getRoutes"
    /\ UNCHANGED <<prev, calls, storeVars>>
    /\ \E a \in IF prev = NoCall THEN RepeatRequests ELSE {prev.args} :
       \E date \in IF prev = NoCall THEN Friday({8}) ELSE Friday({8, 22}) :
       \E call \in {getRoutesAt(osrmServer, a.responses, a.preferences, date,
                                 ActiveReports)} :
          /\ fn' = "getRoutes"
          /\ args' = a
          /\ now' = date
          /\ ret' = call.result
          /\ osrmServer' = call.osrmServer

\* a report is submitted between two routing requests
ReportArrives ==
    /\ prev # NoCall
    /\ prev.fn = "getRoutes"
    /\ SubmitReport

\* a routing request whose server does not answer
CallGetRoutesNoAnswer ==
    /\ Idle
    /\ prev # NoCall
    /\ UNCHANGED <<prev, calls, storeVars>>
    /\ \E responses \in
             IF osrmServer = OSRM_DEMO_SERVER
             THEN { << [ok |-> FALSE], [ok |-> FALSE] >> }
             ELSE { << [ok |-> FALSE] >> } :
          \E call \in {getRoutes(osrmServer, responses, EmptyObject)} :
              /\ fn' = "getRoutes"
              /\ args' = [preferences |-> EmptyObject, responses |-> responses]
              /\ now' = NoDate
              /\ ret' = [result |-> call.result, requests |-> call.requests]
              /\ osrmServer' = call.osrmServer

CallAgain ==
    /\ Idle
    /\ prev # NoCall
    /\ prev.fn # "getRoutes"
    /\ UNCHANGED <<osrmServer, prev, calls, storeVars>>
    /\ \E date \in AgainDates(prev.fn) :
          /\ fn' = prev.fn
          /\ args' = prev.args
          /\ now' = date
          /\ ret' = Invoke(prev.fn, prev.args, date)

\* haversineDistance called again with the two points exchanged
CallExchanged ==
    /\ Idle
    /\ prev # NoCall
    /\ prev.fn = "haversineDistance"
    /\ UNCHANGED <<osrmServer, prev, calls, storeVars>>
    /\ \E date \in AgainDates(prev.fn) :
          \E a \in {[lat1 |-> prev.args.lat2, lon1 |-> prev.args.lon2,
                      lat2 |-> prev.args.lat1, lon2 |-> prev.args.lon1]} :
              /\ fn' = prev.fn
              /\ args' = a
              /\ now' = date
              /\ ret' = Invoke(prev.fn, a, date)

NextRepeat ==
    \/ CallFirst
    \/ ReturnFirst
    \/ CallGetRoutesNoAnswer
    \/ ReportArrives
    \/ CallGetRoutesAt
    \/ CallAgain
    \/ CallExchanged
    \/ Return

SpecRepeat == Init /\ [][NextRepeat]_vars

NextStore ==
    \/ Tick
    \/ SubmitReport
    \/ PostUpvote
    \/ PostDownvote
    \/ PostDownvoteDeleted
    \/ upvoteReport
    \/ downvoteReport
    \/ getReportsInArea
    \/ Return

SpecStore == Init /\ [][NextStore]_vars

(***************************************************************************)
(* getRoutes calls that overlap.  A call runs up to its await of fetch, and *)
(* goes on when the fetch settles; other calls run in between.  App.jsx     *)
(* starts a call from a timer whenever a preference changes, without        *)
(* waiting for the call before.                                             *)
(***************************************************************************)
OverlapPreferences == {[quietness |-> Rat(1, 2), brightness |-> Rat(1, 2)]}

\* no answer, an answer without a route, an answer with one route
OverlapResponses == {r \in Responses : r.ok => Len(r.routes) <= 1}

\* lines 19-25: the url is built from osrmServer and the fetch is started
GetRoutesBegin(c) ==
    /\ calls[c].pc = "idle"
    /\ \E preferences \in OverlapPreferences :
          calls' = [calls EXCEPT ![c] = [pc          |-> "fetch",
                                         preferences |-> preferences,
                                         requests    |-> << osrmServer >>]]
    /\ UNCHANGED <<fn, args, now, ret, osrmServer, prev, storeVars>>

\* lines 27-83: the fetch settles.  With routes the call scores, sorts and
\* returns them.  Without, the catch block runs: if osrmServer still names the
\* demo server it is switched and getRoutes is called again, which builds its
\* url from osrmServer and awaits the next fetch; otherwise the error is
\* thrown.
GetRoutesSettle(c) ==
    /\ calls[c].pc = "fetch"
    /\ \E response \in OverlapResponses :
          IF HasRoutes(response)
          THEN /\ calls' = [calls EXCEPT ![c] =
                              [pc          |-> "done",
                               preferences |-> calls[c].preferences,
                               requests    |-> calls[c].requests,
                               result      |-> TryGetRoutes(response,
                                                            calls[c].preferences)]]
               /\ UNCHANGED osrmServer
          ELSE IF osrmServer = OSRM_DEMO_SERVER
          THEN /\ osrmServer' = OSRM_SERVER
               /\ calls' = [calls EXCEPT ![c].requests = Append(@, OSRM_SERVER)]
          ELSE /\ calls' = [calls EXCEPT ![c] =
                              [pc          |-> "done",
                               preferences |-> calls[c].preferences,
                               requests    |-> calls[c].requests,
                               result      |-> [error |-> "Routing error"]]]
               /\ UNCHANGED osrmServer
    /\ UNCHANGED <<fn, args, now, ret, prev, storeVars>>

\* the caller has taken the result
GetRoutesEnd(c) ==
    /\ calls[c].pc = "done"
    /\ calls' = [calls EXCEPT ![c] = NotCalled]
    /\ UNCHANGED <<fn, args, now, ret, osrmServer, prev, storeVars>>

NextOverlap ==
    \/ \E c \in CallIds : GetRoutesBegin(c)
    \/ \E c \in CallIds : GetRoutesSettle(c)
    \/ \E c \in CallIds : GetRoutesEnd(c)

SpecOverlap == Init /\ [][NextOverlap]_vars

(***************************************************************************)
(* Properties.  The expected values are written out from the documented    *)
(* formulas, in integers over a common denominator, and compared with what *)
(* the call returned.                                                      *)
(***************************************************************************)
Clamp(lo, hi, v) == IF RLess(v, lo) THEN lo ELSE IF RLess(hi, v) THEN hi ELSE v

Field(o, f, dflt) == IF f \in DOMAIN o THEN o[f] ELSE dflt

\* 1.0 + (w10 / 10 - 1.0) * p
Interpolate(w10, p) == Rat(10 * p.d + (w10 - 10) * p.n, 10 * p.d)

\* the documented road-class weights, in tenths
DocNoiseWeight10(class) ==
    CASE class = "motorway"      -> 30
      [] class = "trunk"         -> 28
      [] class = "primary"       -> 25
      [] class = "secondary"     -> 20
      [] class = "tertiary"      -> 15
      [] class = "residential"   -> 10
      [] class = "living_street" -> 8
      [] class = "pedestrian"    -> 6
      [] class = "path"          -> 5
      [] class = "footway"       -> 5
      [] class = "cycleway"      -> 7
      [] OTHER                   -> 10

\* the documented lit-status weights, in tenths
DocLightWeight10(lit) ==
    CASE lit = "yes"     -> 5
      [] lit = "limited" -> 10
      [] lit = "no"      -> 20
      [] OTHER           -> 15

\* the documented report-category weights, in tenths
DocReportWeight10(type) ==
    CASE type = "loud"        -> 20
      [] type = "dark"        -> 18
      [] type = "crowded"     -> 15
      [] type = "obstruction" -> 30
      [] type = "safe"        -> 7
      [] type = "quiet"       -> 5
      [] OTHER                -> 0

\* d(r): metres from the report to the nearer of the first and last
\* coordinate; 50 stands for "not within 50 m" when there is no coordinate
DocDistance(r, edge) ==
    LET cs == Field(edge, "coordinates", << >>)
    IN  IF Len(cs) = 0 THEN 50
        ELSE LET a == Abs(r.lat - cs[1][2])
                 b == Abs(r.lat - cs[Len(cs)][2])
             IN  IF a < b THEN a ELSE b

\* sum over the first k reports of weight * (1 - d / 50), in 500ths
RECURSIVE DocImpact500(_, _, _)
DocImpact500(edge, reports, k) ==
    IF k = 0 THEN 0
    ELSE LET d == DocDistance(reports[k], edge)
         IN  DocImpact500(edge, reports, k - 1)
             + (IF d < 50 THEN DocReportWeight10(reports[k].type) * (50 - d) ELSE 0)

\* the multipliers named by the edge-cost formula, for the preferences given
DocEdgeProduct(base, edge, preferences, reports, date) ==
    RMul(RMul(RMul(RMul(base,
        getNoiseMultiplier(edge, preferences.quietness)),
        getDarknessMultiplier(edge, preferences.brightness, date)),
        getReportsMultiplier(edge, reports)),
        getTimeBasedMultiplier(edge, date))

BothPreferencesGiven ==
    /\ "quietness" \in DOMAIN args.preferences
    /\ "brightness" \in DOMAIN args.preferences

\* C1: for every segment with distance >= 0, zero included, calculateEdgeCost
\* returns exactly distance x noise x darkness x reports x temporal multiplier
\* (for the preferences given), so a zero-length segment costs 0.
C1_EdgeCostIsProduct ==
    (fn = "calculateEdgeCost" /\ "distance" \in DOMAIN args.edge /\ BothPreferencesGiven)
    => /\ ret = DocEdgeProduct(args.edge.distance, args.edge, args.preferences,
                               args.reports, now)
       /\ args.edge.distance = Zero => ret = Zero

\* C2: a preference of 0 switches its dimension off in calculateEdgeCost: with
\* quietness = 0 the noise multiplier in the product is 1.0 for every road
\* class, and with brightness = 0 the darkness multiplier is 1.0 for every lit
\* status at any hour.
C2_ZeroPreferenceIgnoresDimension ==
    (/\ fn = "calculateEdgeCost"
     /\ BothPreferencesGiven
     /\ (args.preferences.quietness = Zero \/ args.preferences.brightness = Zero))
    => LET base == NumOr(args.edge, "distance", Num(100))
           n == IF args.preferences.quietness = Zero THEN One
                ELSE getNoiseMultiplier(args.edge, args.preferences.quietness)
           d == IF args.preferences.brightness = Zero THEN One
                ELSE getDarknessMultiplier(args.edge, args.preferences.brightness, now)
       IN  ret = RMul(RMul(RMul(RMul(base, n), d),
                           getReportsMultiplier(args.edge, args.reports)),
                      getTimeBasedMultiplier(args.edge, now))

\* C3: getNoiseMultiplier(class, q) = clamp(0.5, 3.0, 1 + (base(class) - 1) * q)
\* with base from the documented table and 1.0 for an unknown or missing
\* class; it is 1.0 at q = 0 and base(class) at q = 1.
C3_NoiseMultiplierInterpolates ==
    fn = "getNoiseMultiplier"
    => LET q   == args.quietness
           w10 == DocNoiseWeight10(Field(args.edge, "highway", "residential"))
       IN  /\ ret = Clamp(Rat(1, 2), Num(3), Interpolate(w10, q))
           /\ q = Zero => ret = One
           /\ q = One => ret = Rat(w10, 10)

W_C3_TrunkAtHalf ==
    /\ fn = "getNoiseMultiplier"
    /\ args.edge = [highway |-> "trunk"]
    /\ args.quietness = Rat(1, 2)
    /\ ret = Rat(19, 10)

\* C4: getDarknessMultiplier is 1.0 when brightness is 0 or the hour is in
\* 6..18; otherwise it is clamp(0.5, 2.5, 1 + (w - 1) * brightness) with w = 0.5
\* for lit yes, 1.0 for limited, 2.0 for no and 1.5 for unknown or missing.
C4_DarknessMultiplier ==
    fn = "getDarknessMultiplier"
    => LET b   == args.brightness
           w10 == DocLightWeight10(Field(args.edge, "lit", "unknown"))
       IN  IF b = Zero \/ now.hour \in 6..18
           THEN ret = One
           ELSE ret = Clamp(Rat(1, 2), Rat(5, 2), Interpolate(w10, b))

W_C4_UnlitAtNineteen ==
    /\ fn = "getDarknessMultiplier"
    /\ now.hour = 19
    /\ args.edge = [lit |-> "no"]
    /\ args.brightness = Rat(1, 2)
    /\ ret = Rat(3, 2)

\* C5: every multiplier is strictly positive and bounded: noise in [0.5, 3.0],
\* darkness in [0.5, 2.5], reports in (0, 5.0], for any preferences, classes,
\* lit statuses, hours and reports.
C5_MultipliersInBand ==
    /\ fn = "getNoiseMultiplier" => RLeq(Rat(1, 2), ret) /\ RLeq(ret, Num(3))
    /\ fn = "getDarknessMultiplier" => RLeq(Rat(1, 2), ret) /\ RLeq(ret, Rat(5, 2))
    /\ fn = "getReportsMultiplier" => RLess(Zero, ret) /\ RLeq(ret, Num(5))

W_C5_ReportsAtCeiling ==
    /\ fn = "getReportsMultiplier"
    /\ Len(args.reports) = 2
    /\ \A i \in 1..2 : args.reports[i].type = "obstruction" /\ args.reports[i].lat = 0
    /\ Len(Field(args.edge, "coordinates", << >>)) = 3
    /\ ret = Num(5)

\* C6: the temporal multiplier is the product of 1.8 (school zone, Mon-Fri,
\* hour in 7..9 or 14..16), 2.0 (nightlife zone, Fri/Sat/Sun, hour >= 21 or
\* <= 2) and 1.5 (market zone, hour in 8..20) over the factors whose flag is
\* set and whose condition is met, and 1.0 when there is none.
C6_TemporalMultiplier ==
    fn = "getTimeBasedMultiplier"
    => LET h == now.hour
           d == now.day
           school    == IF /\ Field(args.edge, "school_zone", FALSE)
                           /\ d \in 1..5
                           /\ h \in (7..9) \cup (14..16)
                        THEN 18 ELSE 10
           nightlife == IF /\ Field(args.edge, "nightlife_zone", FALSE)
                           /\ d \in {5, 6, 0}
                           /\ (h >= 21 \/ h <= 2)
                        THEN 20 ELSE 10
           market    == IF /\ Field(args.edge, "market_zone", FALSE)
                           /\ h \in 8..20
                        THEN 15 ELSE 10
       IN  ret = Rat(school * nightlife * market, 1000)

W_C6_SchoolAndMarket ==
    /\ fn = "getTimeBasedMultiplier"
    /\ now = [day |-> 5, hour |-> 8]
    /\ args.edge = [school_zone |-> TRUE, nightlife_zone |-> TRUE, market_zone |-> TRUE]
    /\ ret = Rat(27, 10)

\* C7: for reports {lat, lon, type}, getReportsMultiplier = min(5.0, 1 + sum over the reports within 50 m of
\* weight * (1 - d / 50)), d the smaller endpoint distance; a report at 50 m or
\* more adds nothing and without a report in range the result is 1.0.
C7_ReportsMultiplierSum ==
    (/\ fn = "getReportsMultiplier"
     /\ \A i \in 1..Len(args.reports) : "lon" \in DOMAIN args.reports[i])
    => LET n   == Len(args.reports)
           sum == DocImpact500(args.edge, args.reports, n)
       IN  /\ ret = MathMin(Num(5), Rat(500 + sum, 500))
           /\ (\A i \in 1..n : DocDistance(args.reports[i], args.edge) >= 50)
                => ret = One
           /\ (n = 1 /\ DocDistance(args.reports[1], args.edge) = 0)
                => ret = Rat(10 + DocReportWeight10(args.reports[1].type), 10)

W_C7_TwoReportsDecayed ==
    /\ fn = "getReportsMultiplier"
    /\ Len(Field(args.edge, "coordinates", << >>)) = 3
    /\ args.reports = << [lat |-> 20, lon |-> 0, type |-> "loud"],
                         [lat |-> 125, lon |-> 0, type |-> "quiet"] >>
    /\ ret = Rat(49, 20)

\* C8: when every report within 50 m of the segment is of category safe or
\* quiet (and there is one), getReportsMultiplier is below 1.0.
C8_PositiveReportsReduceCost ==
    (/\ fn = "getReportsMultiplier"
     /\ \E i \in 1..Len(args.reports) : DocDistance(args.reports[i], args.edge) < 50
     /\ \A i \in 1..Len(args.reports) :
           DocDistance(args.reports[i], args.edge) < 50
           => args.reports[i].type \in {"safe", "quiet"})
    => RLess(ret, One)

\* the number of steps in the first k legs
RECURSIVE DocLegSteps(_, _)
DocLegSteps(legs, k) ==
    IF k = 0 THEN 0
    ELSE DocLegSteps(legs, k - 1) + Len(Field(legs[k], "steps", << >>))

\* the route's number of steps over all legs
DocStepCount(route) ==
    LET legs == Field(route, "legs", << >>) IN DocLegSteps(legs, Len(legs))

\* clamp(0.1, 0.9, 0.7 * min(1, (dist / dur) / 15) + 0.3 / (1 + 0.1 * steps / (dist / 1000)))
\* for integers dist > 0, dur > 0: the turn score is dist / (dist + 100 * steps)
DocNoiseScore(dist, dur, steps) ==
    LET speed == IF dist >= 15 * dur THEN One ELSE Rat(dist, 15 * dur)
        turn  == Rat(dist, dist + 100 * steps)
    IN  Clamp(Rat(1, 10), Rat(9, 10),
              RAdd(RMul(Rat(7, 10), speed), RMul(Rat(3, 10), turn)))

\* C9: for a route with distance > 0 and duration > 0 scoreRoute sets noiseScore
\* to the clamped blend of speed and turn score, lightingScore to
\* clamp(0.2, 0.9, 1.2 * noiseScore) and safetyScore to lightingScore.
C9_RouteScores ==
    (/\ fn = "scoreRoute"
     /\ RLess(Zero, Field(args.route, "distance", Zero))
     /\ RLess(Zero, Field(args.route, "duration", Zero)))
    => LET noise == DocNoiseScore(args.route.distance.n, args.route.duration.n,
                                  DocStepCount(args.route))
       IN  /\ ret.stats.noiseScore = noise
           /\ ret.stats.lightingScore = Clamp(Rat(2, 10), Rat(9, 10), RMul(noise, Rat(12, 10)))
           /\ ret.stats.safetyScore = ret.stats.lightingScore
           /\ DocStepCount(args.route) = 0
                => ret.stats.noiseScore
                   = Clamp(Rat(1, 10), Rat(9, 10),
                           RAdd(RMul(Rat(7, 10),
                                     MathMin(One, Rat(args.route.distance.n,
                                                      15 * args.route.duration.n))),
                                Rat(3, 10)))

W_C9_RouteA ==
    /\ fn = "scoreRoute"
    /\ Field(args.route, "distance", Zero) = Num(1000)
    /\ Field(args.route, "duration", Zero) = Num(700)
    /\ DocStepCount(args.route) = 2
    /\ Len(Field(args.route, "legs", << >>)) = 3
    /\ ret.stats.noiseScore = Rat(19, 60)
    /\ ret.stats.lightingScore = Rat(19, 50)

ZeroDurationRoute ==
    /\ fn = "scoreRoute"
    /\ RLess(Zero, Field(args.route, "distance", Zero))
    /\ "duration" \in DOMAIN args.route
    /\ args.route.duration = Zero

DocOverall(noise, light, q, b) ==
    RAdd(RSub(Num(50), RMul(Num(50), RMul(noise, q))),
         RMul(Num(50), RMul(light, b)))

\* C11: for quietness and brightness in [0,1] scoreRoute sets overallScore to
\* ((100 - noiseScore * quietness * 100) + (lightingScore * brightness * 100)) / 2
\* and the value lies in [0, 100].
C11_OverallScoreInRange ==
    (/\ fn = "scoreRoute"
     /\ BothPreferencesGiven
     /\ args.preferences.quietness \in PrefValues
     /\ args.preferences.brightness \in PrefValues)
    => /\ ret.stats.overallScore
          = DocOverall(ret.stats.noiseScore, ret.stats.lightingScore,
                       args.preferences.quietness, args.preferences.brightness)
       /\ RLeq(Zero, ret.stats.overallScore)
       /\ RLeq(ret.stats.overallScore, Num(100))

W_C11_FastRouteFullPreferences ==
    /\ fn = "scoreRoute"
    /\ BothPreferencesGiven
    /\ args.preferences = [quietness |-> One, brightness |-> One]
    /\ ret.stats.noiseScore = Rat(9, 10)
    /\ ret.stats.lightingScore = Rat(9, 10)
    /\ ret.stats.overallScore = Num(50)

(***************************************************************************)
(* Properties of getRoutes, under SpecRoutes.                              *)
(***************************************************************************)
RoutesReturned == fn = "getRoutes" /\ "routes" \in DOMAIN ret.result

\* the oracle's answer the returned list was made from
OracleAnswer == args.responses[Len(args.responses)].routes

\* the position, from 0, a returned route had in the oracle's answer
OracleIndex(r) == CHOOSE k \in 0..Len(OracleAnswer) : r.id = "route-" \o ToString(k)

IsRecommended(r) == Field(r, "recommended", FALSE) = TRUE

\* C12: with quietness = 0 and brightness = 0 every route has overallScore 50,
\* getRoutes returns the routes in the oracle's order and the oracle's first
\* route is recommended.
C12_NeutralPreferencesKeepOrder ==
    (RoutesReturned /\ args.preferences = [quietness |-> Zero, brightness |-> Zero])
    => LET rs == ret.result.routes
       IN  /\ Len(rs) = Len(OracleAnswer)
           /\ \A i \in 1..Len(rs) :
                 /\ rs[i].stats.overallScore = Num(50)
                 /\ OracleIndex(rs[i]) = i - 1
                 /\ rs[i].geometry = OracleAnswer[i].geometry
           /\ IsRecommended(rs[1])

W_C12_ThreeNeutralRoutes ==
    /\ RoutesReturned
    /\ args.preferences = [quietness |-> Zero, brightness |-> Zero]
    /\ Len(ret.result.routes) = 3
    /\ ret.result.routes[1].geometry = "B"
    /\ ret.result.routes[2].geometry = "C"
    /\ ret.result.routes[3].geometry = "A"

\* C13: the returned list is sorted by overallScore in non-increasing order,
\* routes with equal scores keep the oracle's relative order, and the first
\* route, and no other, is marked recommended.
C13_SortedStableOneRecommended ==
    RoutesReturned
    => LET rs == ret.result.routes
       IN  /\ \A i, j \in 1..Len(rs) :
                 i < j =>
                   /\ args.preferences # EmptyObject
                        => RLeq(rs[j].stats.overallScore, rs[i].stats.overallScore)
                   /\ rs[i].stats.overallScore = rs[j].stats.overallScore
                        => OracleIndex(rs[i]) < OracleIndex(rs[j])
           /\ \A i \in 1..Len(rs) : IsRecommended(rs[i]) <=> i = 1
           /\ {OracleIndex(rs[i]) : i \in 1..Len(rs)} = 0..(Len(OracleAnswer) - 1)

W_C13_TieBehindBetterRoute ==
    /\ RoutesReturned
    /\ args.preferences = [quietness |-> One, brightness |-> Zero]
    /\ Len(ret.result.routes) = 3
    /\ ret.result.routes[1].id = "route-1"
    /\ ret.result.routes[2].id = "route-0"
    /\ ret.result.routes[3].id = "route-2"
    /\ ret.result.routes[2].stats.overallScore = ret.result.routes[3].stats.overallScore

\* C14: with quietness > 0 and brightness = 0, of two routes the one with the
\* strictly higher noiseScore has the strictly lower overallScore and comes
\* later in the list.
C14_QuietnessRanksNoisyRoutesLower ==
    (/\ RoutesReturned
     /\ args.preferences # EmptyObject
     /\ args.preferences.quietness \in PrefValues \ {Zero}
     /\ args.preferences.brightness = Zero)
    => LET rs == ret.result.routes
       IN  \A i, j \in 1..Len(rs) :
              RLess(rs[j].stats.noiseScore, rs[i].stats.noiseScore)
              => /\ RLess(rs[i].stats.overallScore, rs[j].stats.overallScore)
                 /\ j < i

W_C14_RouteBAboveRouteA ==
    /\ RoutesReturned
    /\ args.preferences = [quietness |-> One, brightness |-> Zero]
    /\ Len(OracleAnswer) = 2
    /\ OracleAnswer[1].geometry = "A"
    /\ OracleAnswer[2].geometry = "B"
    /\ ret.result.routes[1].geometry = "B"
    /\ ret.result.routes[2].geometry = "A"
    /\ ret.result.routes[2].stats.noiseScore = Rat(19, 60)

ValidPreference(preferences, name) ==
    /\ name \in DOMAIN preferences
    /\ RLeq(Zero, preferences[name])
    /\ RLeq(preferences[name], One)

\* C18: getRoutes rejects preferences that are missing or outside [0,1]: a
\* call given such preferences ends in an error and scores no route.
C18_InvalidPreferencesRejected ==
    (/\ fn = "getRoutes"
     /\ ~(ValidPreference(args.preferences, "quietness")
          /\ ValidPreference(args.preferences, "brightness")))
    => "error" \in DOMAIN ret.result

StatsFields ==
    {"totalDistance", "estimatedTime", "noiseScore", "lightingScore",
     "safetyScore", "overallScore"}

DocTemporal(edge, date) ==
    LET school    == IF /\ Field(edge, "school_zone", FALSE)
                        /\ date.day \in 1..5
                        /\ date.hour \in (7..9) \cup (14..16)
                     THEN 18 ELSE 10
        nightlife == IF /\ Field(edge, "nightlife_zone", FALSE)
                        /\ date.day \in {5, 6, 0}
                        /\ (date.hour >= 21 \/ date.hour <= 2)
                     THEN 20 ELSE 10
        market    == IF Field(edge, "market_zone", FALSE) /\ date.hour \in 8..20
                     THEN 15 ELSE 10
    IN  Rat(school * nightlife * market, 1000)

\* the documented cost of a segment, every missing or unknown attribute
\* replaced by its default
DocCostWithDefaults(edge, preferences, reports, date) ==
    LET base     == Field(edge, "distance", Num(100))
        noise    == Clamp(Rat(1, 2), Num(3),
                          Interpolate(DocNoiseWeight10(Field(edge, "highway", "residential")),
                                      preferences.quietness))
        darkness == IF date.hour \in 6..18 THEN One
                    ELSE Clamp(Rat(1, 2), Rat(5, 2),
                               Interpolate(DocLightWeight10(Field(edge, "lit", "unknown")),
                                           preferences.brightness))
        impact   == MathMin(Num(5),
                            Rat(500 + DocImpact500(edge, reports, Len(reports)), 500))
    IN  RMul(RMul(RMul(RMul(base, noise), darkness), impact), DocTemporal(edge, date))

\* every attribute of the segment is missing or unknown to the tables
SparseEdge(edge) ==
    /\ Field(edge, "highway", "service") \notin DOMAIN NOISE_WEIGHTS
    /\ Field(edge, "lit", "24/7") \notin {"yes", "limited", "no", "unknown"}
    /\ DOMAIN edge \cap {"school_zone", "nightlife_zone", "market_zone"} = {}
    /\ Len(Field(edge, "coordinates", << >>)) = 0

CalledAgain(f) == fn = f /\ prev # NoCall /\ prev.fn = f

C16_EqualArgumentsEqualResults ==
    (/\ prev # NoCall
     /\ fn = prev.fn
     /\ fn \in {"calculateEdgeCost", "getDarknessMultiplier", "getTimeBasedMultiplier"}
     /\ args = prev.args)
    => ret = prev.ret

\* the two points of a call are one point
SamePoint(a) == a.lat1 = a.lat2 /\ a.lon1 = a.lon2

\* the call a with its two points exchanged
Exchanged(a) == [lat1 |-> a.lat2, lon1 |-> a.lon2, lat2 |-> a.lat1, lon2 |-> a.lon1]

\* C20: haversineDistance of a point to itself is 0 (a = 0, so the angle
\* 2 * atan2(0, 1) is 0), and the distance from p2 to p1 is the distance from
\* p1 to p2, with R = 6,371,000 m.
C20_HaversineSymmetricZeroOnSamePoint ==
    fn = "haversineDistance"
    => /\ ret.R = 6371000
       /\ SamePoint(args) => ret.a = Zero
       /\ (prev # NoCall /\ args = Exchanged(prev.args)) => ret = prev.ret

W_C20_ExchangedAcrossLatitudes ==
    /\ CalledAgain("haversineDistance")
    /\ prev.args = [lat1 |-> 0, lon1 |-> 0, lat2 |-> 60, lon2 |-> 120]
    /\ args = Exchanged(prev.args)
    /\ prev.ret.a = Rat(5, 8)
    /\ ret.a = Rat(5, 8)


(***************************************************************************)
(* Further properties of the engine, under Spec.                           *)
(***************************************************************************)
\* C30: getTimeBasedMultiplier returns one of 1.0, 1.5, 1.8, 2.0 and 2.7; when
\* the nightlife factor applies (flag set, Fri/Sat/Sun, hour >= 21 or <= 2)
\* neither of the others does and the result is 2.0, so 2.7 (school x market)
\* is the largest value.
C30_TemporalMultiplierValues ==
    fn = "getTimeBasedMultiplier"
    => /\ ret \in {One, Rat(3, 2), Rat(9, 5), Num(2), Rat(27, 10)}
       /\ (/\ Field(args.edge, "nightlife_zone", FALSE)
           /\ now.day \in {5, 6, 0}
           /\ (now.hour >= 21 \/ now.hour <= 2))
          => ret = Num(2)

W_C30_AllFlagsSaturdayNight ==
    /\ fn = "getTimeBasedMultiplier"
    /\ now = [day |-> 6, hour |-> 22]
    /\ args.edge = [school_zone |-> TRUE, nightlife_zone |-> TRUE, market_zone |-> TRUE]
    /\ ret = Num(2)


\* a report as the report service hands it out, lying on a coordinate
StoredReportOnEndpoint(report, edge) ==
    /\ "lng" \in DOMAIN report
    /\ "coordinates" \in DOMAIN edge
    /\ \E i \in {1, Len(edge.coordinates)} \cap DOMAIN edge.coordinates :
          /\ report.lng = edge.coordinates[i][1]
          /\ report.lat = edge.coordinates[i][2]

\* C29: a single report of the report service (fields lat and lng) of a known
\* category, on the first or the last coordinate of the segment, gives
\* getReportsMultiplier = 1 + the category's weight, above 1.0.
C29_StoredReportOnEndpointCounts ==
    (/\ fn = "getReportsMultiplier"
     /\ Len(args.reports) = 1
     /\ StoredReportOnEndpoint(args.reports[1], args.edge)
     /\ args.reports[1].type \in DOMAIN REPORT_TYPES)
    => /\ RLess(One, ret)
       /\ ret = Rat(10 + DocReportWeight10(args.reports[1].type), 10)


(***************************************************************************)
(* Further properties of getRoutes, under SpecRoutes.                      *)
(***************************************************************************)
\* both preferences are given, lie in [0,1] and quietness >= 1.2 * brightness
QuietnessDominates ==
    /\ ValidPreference(args.preferences, "quietness")
    /\ ValidPreference(args.preferences, "brightness")
    /\ RLeq(RMul(Rat(6, 5), args.preferences.brightness), args.preferences.quietness)

\* C28 as stated: when quietness >= 1.2 * brightness no returned route stands
\* above a route with a lower noiseScore.
C28_NoisierNeverAbove ==
    (RoutesReturned /\ QuietnessDominates)
    => LET rs == ret.result.routes
       IN  \A i, j \in 1..Len(rs) :
              i < j => ~RLess(rs[j].stats.noiseScore, rs[i].stats.noiseScore)

\* C28, amended: when quietness >= 1.2 * brightness a route with the higher
\* noiseScore has an overallScore that is no higher; it stands above the
\* quieter route only if the two overallScores are equal and the oracle listed
\* it first, and never if quietness > 1.2 * brightness.
C28_NoisierAboveOnlyOnTie ==
    (RoutesReturned /\ QuietnessDominates)
    => LET rs == ret.result.routes
       IN  \A i, j \in 1..Len(rs) :
              RLess(rs[j].stats.noiseScore, rs[i].stats.noiseScore)
              => /\ RLeq(rs[i].stats.overallScore, rs[j].stats.overallScore)
                 /\ i < j
                    => /\ rs[i].stats.overallScore = rs[j].stats.overallScore
                       /\ OracleIndex(rs[i]) < OracleIndex(rs[j])
                       /\ RMul(Rat(6, 5), args.preferences.brightness)
                            = args.preferences.quietness

W_C28_QuieterRouteFirstWithBrightness ==
    /\ RoutesReturned
    /\ args.preferences = [quietness |-> One, brightness |-> Rat(1, 2)]
    /\ Len(OracleAnswer) = 2
    /\ OracleAnswer[1].geometry = "A"
    /\ OracleAnswer[2].geometry = "B"
    /\ ret.result.routes[1].geometry = "B"
    /\ ret.result.routes[1].stats.lightingScore = Rat(1, 5)
    /\ ret.result.routes[2].stats.lightingScore = Rat(19, 50)
    /\ RLess(ret.result.routes[2].stats.overallScore,
             ret.result.routes[1].stats.overallScore)


\* C24: the local server is tried first and the demo server is the fallback: a
\* call that makes two requests asks OSRM_SERVER and then OSRM_DEMO_SERVER,
\* and a call whose first request goes to the demo server (the local one
\* having failed before) makes no second request.
C24_LocalServerFirst ==
    fn = "getRoutes"
    => /\ Len(ret.requests) = 2 => ret.requests = << OSRM_SERVER, OSRM_DEMO_SERVER >>
       /\ ret.requests[1] = OSRM_DEMO_SERVER => Len(ret.requests) = 1

\* what getRoutes did, read from the requests it made: requests[1] is the
\* value osrmServer had when the call began
RequestsAsDocumented ==
    /\ Len(ret.requests) \in 1..2
    /\ Len(ret.requests) = Len(args.responses)
    /\ DOMAIN ret.result \in {{"routes"}, {"error"}}
    /\ "routes" \in DOMAIN ret.result <=> HasRoutes(args.responses[Len(args.responses)])
    /\ IF ret.requests[1] = OSRM_DEMO_SERVER /\ ~HasRoutes(args.responses[1])
       THEN ret.requests = << OSRM_DEMO_SERVER, OSRM_SERVER >> /\ osrmServer = OSRM_SERVER
       ELSE Len(ret.requests) = 1 /\ osrmServer = ret.requests[1]
    /\ osrmServer \in {OSRM_DEMO_SERVER, OSRM_SERVER}

\* C25: a getRoutes call ends with a route list or an error after one or two
\* requests: two exactly when osrmServer was the initial server and the first
\* request failed, the second going to the other server, which osrmServer
\* then names; a failure after that is an error after a single request; and
\* osrmServer, once it names the other server, keeps naming it.
C25_AtMostTwoRequests ==
    /\ [](fn = "getRoutes" => RequestsAsDocumented)
    /\ [][osrmServer = OSRM_SERVER => osrmServer' = OSRM_SERVER]_vars

W_C25_FailureAfterTheSwitch ==
    /\ fn = "getRoutes"
    /\ osrmServer = OSRM_SERVER
    /\ ret.requests = << OSRM_SERVER >>
    /\ args.responses = << [ok |-> FALSE] >>
    /\ ret.result = [error |-> "Routing error"]


(***************************************************************************)
(* Properties of overlapping getRoutes calls, under SpecOverlap.           *)
(***************************************************************************)
\* C26: a call that ends in an error and whose first request went to the
\* demo server has made a second request, to the local server.
C26_FallbackTriedBeforeFailure ==
    \A c \in CallIds :
       (/\ calls[c].pc = "done"
        /\ "error" \in DOMAIN calls[c].result
        /\ calls[c].requests[1] = OSRM_DEMO_SERVER)
       => calls[c].requests = << OSRM_DEMO_SERVER, OSRM_SERVER >>


(***************************************************************************)
(* Properties of the report service.                                       *)
(***************************************************************************)
\* the documented retention window of a report type, in hours
DocRetentionHours(type) ==
    CASE type = "loud"        -> 4
      [] type = "crowded"     -> 2
      [] type = "obstruction" -> 4 * 7 * 24
      [] type = "dark"        -> 30 * 24
      [] OTHER                -> 7 * 24

\* C21: a new report is kept 4 hours (loud), 2 hours (crowded), 4 weeks
\* (obstruction), 30 days (dark) and 1 week (any other type), by the server's
\* getExpiryHours and by the client's getExpiryDate alike.
C21_RetentionWindows ==
    /\ fn = "getExpiryHours" => ret = DocRetentionHours(args.type)
    /\ fn = "getExpiryDate" => ret - args.at = DocRetentionHours(args.type)


(***************************************************************************)
(* Properties of the report stores, under SpecStore.                       *)
(***************************************************************************)
ExpiryOf(report) ==
    IF "expiresAt" \in DOMAIN report THEN report.expiresAt ELSE report.expires_at

\* C22: getReportsInArea, through the server or through localStorage, returns
\* no report whose expiry lies before the time of the request, and only
\* reports inside the requested box.
C22_OnlyActiveReportsInArea ==
    fn = "getReportsInArea"
    => \A r \in ret :
          /\ ExpiryOf(r) >= clock
          /\ r.lat >= args.bounds.south /\ r.lat <= args.bounds.north
          /\ r.lng >= args.bounds.west /\ r.lng <= args.bounds.east

W_C22_ExpiredReportLeftOut ==
    /\ fn = "getReportsInArea"
    /\ ~args.backend
    /\ Len(local.stored) = 1
    /\ local.stored[1].lat = 1
    /\ local.stored[1].expiresAt = 2
    /\ local.stored[1].upvotes = 1
    /\ local.stored[1].downvotes = 2
    /\ clock = 3
    /\ ret = {}

\* the reports of localStorage that getLocalReports still hands out
VisibleLocally == {r \in {local.stored[i] : i \in 1..Len(local.stored)} : r.expiresAt >= clock}

\* C23: a row with three downvotes or more exists only while the request that
\* brought the third has not been answered; when it is answered the row is
\* gone, and a later vote finds nothing.  No report with three downvotes is
\* handed out from localStorage, and after the third downvoteReport the report
\* is gone from it.  Upvotes change nothing of this.
C23_ThreeDownvotesDelete ==
    /\ \A id \in DOMAIN db.rows :
          db.rows[id].downvotes >= 3 => \E k \in 1..Len(deleting) : deleting[k] = id
    /\ (fn = "POST downvote" /\ "message" \in DOMAIN ret /\ deleting = << >>)
          => args.id \notin DOMAIN db.rows
    /\ (fn \in {"POST upvote", "POST downvote"} /\ args.id \notin DOMAIN db.rows)
          => ("error" \in DOMAIN ret \/ "message" \in DOMAIN ret)
    /\ \A r \in VisibleLocally : r.downvotes < 3
    /\ (fn \in {"upvoteReport", "downvoteReport"} /\ ~args.found)
          => \A r \in VisibleLocally : r.id # args.id

W_C23_ThirdDownvoteAnswered ==
    /\ fn = "POST downvote"
    /\ ret = [message |-> "Report removed due to downvotes"]
    /\ deleting = << >>
    /\ db = [nextId |-> 2, rows |-> << >>]
    /\ local = [nextId |-> 2, stored |-> << >>]
    /\ clock = 0


====
